---- MODULE Spec2Model ----
(***************************************************************************)
(* A model of estafette-google-cloud-dns: the controller that keeps Google *)
(* Cloud DNS A records in step with the load-balancer addresses of         *)
(* annotated Services and Ingresses.                                       *)
(*                                                                         *)
(* src/README.md holds, after the readme text, two revisions of main.go    *)
(* (lines 58-616 and 617-1123); the model follows the later one, which is  *)
(* the one go.mod's estafette-foundation dependency belongs to.  The       *)
(* gateway is the latest revision of googleCloudDNSService.go, the one in  *)
(* src/unnamed/part_000 (list, then one change with deletions and the      *)
(* addition).  applyJitter is taken from the earlier revision of main.go:  *)
(* the later one calls the foundation library's ApplyJitter with the same  *)
(* bases.                                                                  *)
(*                                                                         *)
(* Go strings are sequences of one-character strings, so that              *)
(* strings.Split and len() are computed and not assumed.                   *)
(***************************************************************************)
EXTENDS Integers, Sequences, FiniteSets, TLC

VARIABLES
    cluster,    \* the API server's copy of every resource
    zone,       \* the record sets of the managed Cloud DNS zone
    edits,      \* number of changes made to resources from outside
    pc,         \* per trigger loop: where it is in a reconciliation
    obj,        \* per loop: the resource object handed to processService/processIngress
    desired,    \* per loop: desiredState of the reconciliation in flight
    todo,       \* per loop: hostnames the loop over strings.Split has not reached yet
    records,    \* per loop: what GetDNSRecordByName returned for the upsert in flight
    calls,      \* per loop: the external calls the reconciliation has issued
    status,     \* per loop: the status the reconciliation returned
    err,        \* per loop: the error the reconciliation returned
    prev,       \* the last reconciliation that returned, as the caller saw it
    labels,     \* the labels the argument of validateHostname is written from
    hostname,   \* argument of validateHostname
    valid,      \* result of validateHostname
    input,      \* argument of applyJitter
    output,     \* result of applyJitter
    gpc,        \* where a call of UpsertDNSRecord is
    args,       \* its arguments
    before,     \* the zone as the call found it
    found,      \* records: what GetDNSRecordByName returned to it
    requests,   \* the requests the call has sent to the provider, in order
    result,     \* the error the call returned
    waitGroup,  \* the counter of the sync.WaitGroup
    shutdown,   \* where the main goroutine is
    inflight,   \* per loop: between waitGroup.Add(1) and waitGroup.Done()
    runs,       \* number of reconciliations that reached waitGroup.Done()
    lpc,        \* per trigger loop: where the goroutine is in its for loop
    queue,      \* per loop: events the watcher holds, or listed items not yet ranged over
    sleeping,   \* per loop: the argument of ApplyJitter of the sleep in progress, or 0
    lists,      \* the errors of the list calls of the latest sweep
    faults,     \* number of failed Watch, Next and List calls so far
    counted,    \* number of increments of dnsRecordsTotals
    totals      \* dnsRecordsTotals: the value of each counter created so far, by its labels

vars == <<cluster, zone, edits, pc, obj, desired, todo, records, calls, status, err,
          prev, labels, hostname, valid, input, output,
          gpc, args, before, found, requests, result,
          waitGroup, shutdown, inflight, runs,
          lpc, queue, sleeping, lists, faults, counted, totals>>

reconcileVars == <<cluster, zone, edits, pc, obj, desired, todo, records, calls,
                   status, err, prev>>

hostnameVars == <<labels, hostname, valid>>

jitterVars == <<input, output>>

\* the reconciler's variables but the zone
loopVars == <<cluster, edits, pc, obj, desired, todo, records, calls, status, err, prev>>

gatewayVars == <<gpc, args, before, found, requests, result>>

shutdownVars == <<waitGroup, shutdown, inflight, runs>>

triggerVars == <<lpc, queue, sleeping, lists, faults, counted, totals>>

----------------------------------------------------------------------------
(* Strings *)

\* The string of n copies of the character c.
Rep(c, n) == [i \in 1..n |-> c]

\* The positions of s that hold the separator.
SepPositions(s, sep) == {i \in 1..Len(s) : s[i] = sep}

\* The k-th separator position of s, counted from the left.
SepPosition(s, sep, k) ==
    CHOOSE i \in SepPositions(s, sep) :
        Cardinality({j \in SepPositions(s, sep) : j < i}) = k - 1

\* strings.Split(s, sep) for a one-character separator: the pieces between the
\* separators, empty pieces included, one more piece than there are separators;
\* Split("", sep) is the one empty piece.
Split(s, sep) ==
    LET n == Cardinality(SepPositions(s, sep))
    IN  [k \in 1..(n + 1) |->
            SubSeq(s,
                   IF k = 1 THEN 1 ELSE SepPosition(s, sep, k - 1) + 1,
                   IF k = n + 1 THEN Len(s) ELSE SepPosition(s, sep, k) - 1)]

RECURSIVE Join(_, _)
\* The pieces joined with sep between them (how the inputs are written down).
Join(parts, sep) ==
    IF Len(parts) = 0 THEN <<>>
    ELSE IF Len(parts) = 1 THEN parts[1]
    ELSE parts[1] \o <<sep>> \o Join(Tail(parts), sep)

----------------------------------------------------------------------------
(* validateHostname *)

\* the longest label validateHostname accepts
MaxLabelLength == 63

\* the fewest labels validateHostname accepts
MinLabels == 2

\* A plausible slip: the label bound off by one (>= instead of >).
validateHostnameStrict(h) ==
    LET dnsNameParts == Split(h, ".")
    IN  IF Len(dnsNameParts) < MinLabels THEN FALSE
        ELSE \A i \in 1..Len(dnsNameParts) : ~(Len(dnsNameParts[i]) >= MaxLabelLength)

validateHostname(h) ==
    LET dnsNameParts == Split(h, ".")
    IN  IF Len(dnsNameParts) < MinLabels THEN FALSE
        ELSE \A i \in 1..Len(dnsNameParts) : ~(Len(dnsNameParts[i]) > MaxLabelLength)

----------------------------------------------------------------------------
(* applyJitter *)

\* the base of the watch loops' sleep
WatchSleepBase == 30

\* the base of the sweep loop's sleep
SweepSleepBase == 900

\* int(0.25 * float64(input)): a quarter, truncated (exact in float64)
Deviation(in) == in \div 4

\* r.Intn(n): some integer of [0, n); it panics for n <= 0, and then no value
\* is produced.
Intn(n) == 0..(n - 1)

\* A plausible slip: the random term drawn from [0, 2*deviation] inclusive.
applyJitterInclusive(in) ==
    {in - Deviation(in) + k : k \in Intn(2 * Deviation(in) + 1)}

\* The values applyJitter(in) can return.
applyJitter(in) ==
    {in - Deviation(in) + k : k \in Intn(2 * Deviation(in))}

----------------------------------------------------------------------------
(* Annotations, snapshots and resources *)

annotationGoogleCloudDNS == "estafette.io/google-cloud-dns"

annotationGoogleCloudDNSHostnames == "estafette.io/google-cloud-dns-hostnames"

annotationGoogleCloudDNSState == "estafette.io/google-cloud-dns-state"

AnnotationKeys ==
    {annotationGoogleCloudDNS, annotationGoogleCloudDNSHostnames,
     annotationGoogleCloudDNSState}

TrueText == <<"t", "r", "u", "e">>

FalseText == <<"f", "a", "l", "s", "e">>

\* An annotation's value.  form "absent": the key is not in the map; "raw": a
\* text that is no JSON object; "json": the text of a JSON object, given by its
\* members (name, string value).
Absent == [form |-> "absent", text |-> <<>>, members |-> {}]

Raw(t) == [form |-> "raw", text |-> t, members |-> {}]

JSONObject(ms) == [form |-> "json", text |-> <<>>, members |-> ms]

\* v, ok := annotations[key]
Has(annotations, key) == annotations[key].form # "absent"

\* The GoogleCloudDNSState struct and its zero value.
GoogleCloudDNSState(e, h, ip) == [enabled |-> e, hostnames |-> h, ipAddress |-> ip]

ZeroState == GoogleCloudDNSState(<<>>, <<>>, <<>>)

\* A plausible slip: the address written under a tag the reader does not know.
MarshalOtherTag(state) ==
    JSONObject({<<"enabled", state.enabled>>, <<"hostnames", state.hostnames>>,
                <<"ip", state.ipAddress>>})

\* json.Marshal of a GoogleCloudDNSState: an object with one member per field,
\* named by the field's json tag.
Marshal(state) ==
    JSONObject({<<"enabled", state.enabled>>, <<"hostnames", state.hostnames>>,
                <<"ipAddress", state.ipAddress>>})

\* The string member `name` of a JSON object, "" when it has none.
Member(v, name) ==
    IF \E m \in v.members : m[1] = name
    THEN (CHOOSE m \in v.members : m[1] = name)[2]
    ELSE <<>>

\* json.Unmarshal into a GoogleCloudDNSState: an error for a text that is no
\* JSON object; a field whose member is missing keeps its zero value.
Unmarshal(v) ==
    IF v.form = "json"
    THEN [ok |-> TRUE,
          state |-> GoogleCloudDNSState(Member(v, "enabled"), Member(v, "hostnames"),
                                        Member(v, "ipAddress"))]
    ELSE [ok |-> FALSE, state |-> ZeroState]

LoadBalancer == "LoadBalancer"

\* One entry of status.loadBalancer.ingress: Ip is a pointer, nil for an entry
\* that carries a hostname only.
LBEntry(ip) == [hasIp |-> TRUE, ip |-> ip]

LBEntryNoIP == [hasIp |-> FALSE, ip |-> <<>>]

\* getDesiredServiceState dereferences the first entry's Ip.
ServiceDerefPanics(service) ==
    /\ service.type = LoadBalancer
    /\ Len(service.lb) > 0
    /\ ~service.lb[1].hasIp

\* getDesiredIngressState dereferences the first entry's Ip.
IngressDerefPanics(ingress) ==
    /\ Len(ingress.lb) > 0
    /\ ~ingress.lb[1].hasIp

\* A plausible slip: the enabled annotation defaulting to "true".
getDesiredServiceStateDefaultOn(service) ==
    GoogleCloudDNSState(
        IF Has(service.ann, annotationGoogleCloudDNS)
        THEN service.ann[annotationGoogleCloudDNS].text ELSE TrueText,
        IF Has(service.ann, annotationGoogleCloudDNSHostnames)
        THEN service.ann[annotationGoogleCloudDNSHostnames].text ELSE <<>>,
        IF service.type = LoadBalancer /\ Len(service.lb) > 0
        THEN service.lb[1].ip ELSE <<>>)

getDesiredServiceState(service) ==
    GoogleCloudDNSState(
        IF Has(service.ann, annotationGoogleCloudDNS)
        THEN service.ann[annotationGoogleCloudDNS].text ELSE FalseText,
        IF Has(service.ann, annotationGoogleCloudDNSHostnames)
        THEN service.ann[annotationGoogleCloudDNSHostnames].text ELSE <<>>,
        IF service.type = LoadBalancer /\ Len(service.lb) > 0
        THEN service.lb[1].ip ELSE <<>>)

\* A plausible slip: a state annotation that does not parse taken as up to date.
getCurrentServiceStateAsDesired(service) ==
    IF ~Has(service.ann, annotationGoogleCloudDNSState) THEN ZeroState
    ELSE LET u == Unmarshal(service.ann[annotationGoogleCloudDNSState])
         IN  IF ~u.ok THEN getDesiredServiceState(service) ELSE u.state

getCurrentServiceState(service) ==
    IF ~Has(service.ann, annotationGoogleCloudDNSState) THEN ZeroState
    ELSE LET u == Unmarshal(service.ann[annotationGoogleCloudDNSState])
         IN  IF ~u.ok THEN ZeroState ELSE u.state

getDesiredIngressState(ingress) ==
    GoogleCloudDNSState(
        IF Has(ingress.ann, annotationGoogleCloudDNS)
        THEN ingress.ann[annotationGoogleCloudDNS].text ELSE FalseText,
        IF Has(ingress.ann, annotationGoogleCloudDNSHostnames)
        THEN ingress.ann[annotationGoogleCloudDNSHostnames].text ELSE <<>>,
        IF Len(ingress.lb) > 0 THEN ingress.lb[1].ip ELSE <<>>)

\* The earlier revision's slip: the state read from the enable annotation.
getCurrentIngressStateEnableKey(ingress) ==
    IF ~Has(ingress.ann, annotationGoogleCloudDNS) THEN ZeroState
    ELSE LET u == Unmarshal(ingress.ann[annotationGoogleCloudDNS])
         IN  IF ~u.ok THEN ZeroState ELSE u.state

getCurrentIngressState(ingress) ==
    IF ~Has(ingress.ann, annotationGoogleCloudDNSState) THEN ZeroState
    ELSE LET u == Unmarshal(ingress.ann[annotationGoogleCloudDNSState])
         IN  IF ~u.ok THEN ZeroState ELSE u.state

\* The two extractors, by the kind of the resource.
DerefPanics(o) ==
    IF o.kind = "service" THEN ServiceDerefPanics(o) ELSE IngressDerefPanics(o)

DesiredOf(o) ==
    IF o.kind = "service" THEN getDesiredServiceState(o) ELSE getDesiredIngressState(o)

\* A plausible slip: the current state looked up in the zone, the desired
\* snapshot when every valid hostname has its record there, none otherwise.
CurrentOfZone(o) ==
    LET d == DesiredOf(o)
        hs == SelectSeq(Split(d.hostnames, ","), validateHostname)
    IN  IF \A i \in 1..Len(hs) :
              \E rr \in zone : /\ rr.name = hs[i] \o <<".">>
                               /\ rr.type = "A"
                               /\ rr.rrdatas = <<d.ipAddress>>
        THEN d
        ELSE ZeroState

CurrentOf(o) ==
    IF o.kind = "service" THEN getCurrentServiceState(o) ELSE getCurrentIngressState(o)

----------------------------------------------------------------------------
(* The DNS provider gateway (GoogleCloudDNSService) and the provider *)

\* the TTL of every record set the gateway writes
RecordTTL == 300

\* The fully-qualified name the gateway writes: fmt.Sprintf("%v.", dnsRecordName).
FQDN(dnsRecordName) == dnsRecordName \o <<".">>

\* The first revision's addition: an empty record set, the arguments unused.
RecordSetEmpty(dnsRecordType, dnsRecordName, dnsRecordContent) ==
    [name |-> <<>>, type |-> "", ttl |-> 0, rrdatas |-> <<>>]

\* The record set UpsertDNSRecord adds.
RecordSet(dnsRecordType, dnsRecordName, dnsRecordContent) ==
    [name |-> FQDN(dnsRecordName), type |-> dnsRecordType, ttl |-> RecordTTL,
     rrdatas |-> <<dnsRecordContent>>]

\* A provider that completes the name it is asked for: the list finds the
\* record set stored under the fully-qualified name.
ListRecordSetsQualified(z, name, type) ==
    {rr \in z : rr.name \in {name, FQDN(name)} /\ rr.type = type}

\* The provider's ResourceRecordSets.List with Name(name).Type(type): the record
\* sets of the zone stored under exactly that name and type.  The zone stores
\* fully-qualified names.
ListRecordSets(z, name, type) == {rr \in z : rr.name = name /\ rr.type = type}

\* How a call to the provider can end in transport: answered, or failed.
TransportOutcomes == {"nil", "transport"}

\* records of GetDNSRecordByName when the list call ended with e: the page's
\* record sets, or the empty slice it was made as (the error is only logged).
ListOutcome(z, dnsRecordType, dnsRecordName, e) ==
    IF e = "nil" THEN ListRecordSets(z, dnsRecordName, dnsRecordType) ELSE {}

\* What GetDNSRecordByName can return: the listed record sets, or no record when
\* the list call fails (the error is logged and dropped).
GetDNSRecordByName(z, dnsRecordType, dnsRecordName) ==
    {ListOutcome(z, dnsRecordType, dnsRecordName, e) : e \in TransportOutcomes}

\* The change UpsertDNSRecord submits, given the record sets the list returned.
UpsertChange(dnsRecordType, dnsRecordName, dnsRecordContent, recs) ==
    [additions |-> {RecordSet(dnsRecordType, dnsRecordName, dnsRecordContent)},
     deletions |-> recs]

\* The provider's verdict on a change (Changes.Create): every deletion must be a
\* record set of the zone, and no addition may have the name and type of a
\* record set that stays.
ChangeError(z, change) ==
    IF ~(change.deletions \subseteq z) THEN "notFound"
    ELSE IF \E a \in change.additions : \E rr \in (z \ change.deletions) :
                rr.name = a.name /\ rr.type = a.type
    THEN "alreadyExists"
    ELSE "nil"

\* The zone after an accepted change.
ApplyChange(z, change) == (z \ change.deletions) \cup change.additions

\* The arguments of a call of UpsertDNSRecord.
Args(dnsRecordType, dnsRecordName, dnsRecordContent) ==
    [type |-> dnsRecordType, name |-> dnsRecordName, content |-> dnsRecordContent]

NoArgs == Args("", <<>>, <<>>)

NoChange == [additions |-> {}, deletions |-> {}]

\* One request as the provider received it: ResourceRecordSets.List with the
\* name and type asked for, or Changes.Create with the change; e is how it ended.
ListRequest(dnsRecordType, dnsRecordName, e) ==
    [op |-> "list", name |-> dnsRecordName, type |-> dnsRecordType,
     change |-> NoChange, err |-> e]

CreateRequest(change, e) ==
    [op |-> "create", name |-> <<>>, type |-> "", change |-> change, err |-> e]

\* UpsertDNSRecord(dnsRecordType, dnsRecordName, dnsRecordContent) is called.
Upsert(dnsRecordType, dnsRecordName, dnsRecordContent) ==
    /\ gpc = "idle"
    /\ args' = Args(dnsRecordType, dnsRecordName, dnsRecordContent)
    /\ before' = zone
    /\ found' = {}
    /\ requests' = <<>>
    /\ result' = "nil"
    /\ gpc' = "list"
    /\ UNCHANGED zone

\* GetDNSRecordByName: one list request; its error is logged, not returned.
GatewayList ==
    /\ gpc = "list"
    /\ \E e \in TransportOutcomes :
          /\ found' = ListOutcome(zone, args.type, args.name, e)
          /\ requests' = Append(requests, ListRequest(args.type, args.name, e))
    /\ gpc' = "create"
    /\ UNCHANGED <<zone, args, before, result>>

\* The change is built from the arguments and the records found and submitted
\* once through Changes.Create; the call returns the error of that request.
GatewayCreate ==
    /\ gpc = "create"
    /\ LET change == UpsertChange(args.type, args.name, args.content, found)
       IN  \E e \in TransportOutcomes :
              LET verdict == IF e # "nil" THEN e ELSE ChangeError(zone, change)
              IN  /\ requests' = Append(requests, CreateRequest(change, verdict))
                  /\ result' = verdict
                  /\ zone' = IF verdict = "nil" THEN ApplyChange(zone, change) ELSE zone
    /\ gpc' = "returned"
    /\ UNCHANGED <<args, before, found>>

\* The caller takes the result; the call's locals are gone.
GatewayReturn ==
    /\ gpc = "returned"
    /\ gpc' = "idle"
    /\ args' = NoArgs
    /\ before' = {}
    /\ found' = {}
    /\ requests' = <<>>
    /\ result' = "nil"
    /\ UNCHANGED zone

----------------------------------------------------------------------------
(* The reconciler: processService / processIngress and make...Changes *)

\* The three trigger loops (goroutines) of main.
Loops == {"services", "ingresses", "poller"}

\* the initiator label a loop counts its reconciliations under
Initiator(w) == IF w = "poller" THEN "poller" ELSE "watcher"

\* the kinds of resource a loop reconciles
KindsOf(w) ==
    IF w = "services" THEN {"service"}
    ELSE IF w = "ingresses" THEN {"ingress"}
    ELSE {"service", "ingress"}

\* The first condition of make...Changes: enabled, hostnames and an address.
Gate(desiredState) ==
    /\ desiredState.enabled = TrueText
    /\ Len(desiredState.hostnames) > 0
    /\ desiredState.ipAddress # <<>>

\* A plausible slip: the stored state compared in all three fields.
DriftAllFields(desiredState, currentState) == desiredState # currentState

\* A plausible slip: the hostnames compared with the wrong field of the stored
\* state.
DriftWrongField(desiredState, currentState) ==
    \/ desiredState.ipAddress # currentState.ipAddress
    \/ desiredState.hostnames # currentState.enabled

\* The second condition: anything changed compared to the stored state.
Drift(desiredState, currentState) ==
    \/ desiredState.ipAddress # currentState.ipAddress
    \/ desiredState.hostnames # currentState.hostnames

\* A plausible slip: the gate forgotten, any drift acted on.
HasChangesNoGate(desiredState, currentState) == Drift(desiredState, currentState)

\* hasChanges of makeServiceChanges; makeIngressChanges nests the same two
\* conditions.
HasChanges(desiredState, currentState) ==
    Gate(desiredState) /\ Drift(desiredState, currentState)

\* A plausible slip: the validation forgotten, every piece upserted.
NextValidAll(hostnames) == hostnames

RECURSIVE NextValid(_)
\* The hostname loop's `continue`: the hostnames left, from the first valid one.
NextValid(hostnames) ==
    IF hostnames = <<>> THEN <<>>
    ELSE IF ~validateHostname(hostnames[1]) THEN NextValid(Tail(hostnames))
    ELSE hostnames

\* The hostnames the loop starts with: strings.Split(desiredState.Hostnames, ","),
\* from the first valid one.
HostnamesToUpsert(desiredState) == NextValid(Split(desiredState.hostnames, ","))

\* One external call as the reconciliation saw it.
UpsertCall(type, name, value, e) ==
    [op |-> "upsert", type |-> type, name |-> name, value |-> value,
     ann |-> Absent, err |-> e]

UpdateCall(ann, e) ==
    [op |-> "update", type |-> "", name |-> <<>>, value |-> <<>>,
     ann |-> ann, err |-> e]

\* A panic in one goroutine ends the process.
Crashed == \E w \in Loops : pc[w] = "panicked"

\* processService / processIngress on the object o, up to its first external
\* call: the two snapshots, the gate and the drift check.
Begin(w, o) ==
    /\ obj' = [obj EXCEPT ![w] = o]
    /\ calls' = [calls EXCEPT ![w] = <<>>]
    /\ records' = [records EXCEPT ![w] = {}]
    /\ err' = [err EXCEPT ![w] = "nil"]
    /\ IF DerefPanics(o)
       THEN /\ pc' = [pc EXCEPT ![w] = "panicked"]
            /\ status' = [status EXCEPT ![w] = "failed"]
            /\ UNCHANGED <<desired, todo>>
       ELSE LET desiredState == DesiredOf(o)
                currentState == CurrentOf(o)
                hostnames == HostnamesToUpsert(desiredState)
            IN  /\ desired' = [desired EXCEPT ![w] = desiredState]
                /\ IF HasChanges(desiredState, currentState)
                   THEN /\ todo' = [todo EXCEPT ![w] = hostnames]
                        /\ status' = [status EXCEPT ![w] = "failed"]
                        /\ pc' = [pc EXCEPT ![w] =
                                    IF hostnames = <<>> THEN "update" ELSE "list"]
                   ELSE /\ todo' = [todo EXCEPT ![w] = <<>>]
                        /\ status' = [status EXCEPT ![w] = "skipped"]
                        /\ pc' = [pc EXCEPT ![w] = "returned"]

\* A trigger loop hands the resource r, as the cluster holds it, to
\* processService / processIngress.
Process(w, r) ==
    /\ ~Crashed
    /\ pc[w] = "idle"
    /\ r \in DOMAIN cluster
    /\ cluster[r].kind \in KindsOf(w)
    /\ Begin(w, cluster[r])
    /\ UNCHANGED <<cluster, zone, edits, prev>>

\* UpsertDNSRecord("A", hostname, desiredState.IPAddress), first half:
\* GetDNSRecordByName.
List(w) ==
    /\ ~Crashed
    /\ pc[w] = "list"
    /\ \E recs \in GetDNSRecordByName(zone, "A", todo[w][1]) :
          records' = [records EXCEPT ![w] = recs]
    /\ pc' = [pc EXCEPT ![w] = "change"]
    /\ UNCHANGED <<cluster, zone, edits, obj, desired, todo, calls, status, err, prev>>

\* The upsert returned the error e: make...Changes returns failed with it.
UpsertFailed(w, e) ==
    /\ calls' = [calls EXCEPT ![w] =
                    Append(@, UpsertCall("A", todo[w][1], desired[w].ipAddress, e))]
    /\ err' = [err EXCEPT ![w] = e]
    /\ pc' = [pc EXCEPT ![w] = "returned"]
    /\ UNCHANGED <<zone, todo, status>>

\* A plausible slip: an upsert error logged and the loop carried on.
UpsertFailedContinue(w, e) ==
    /\ calls' = [calls EXCEPT ![w] =
                    Append(@, UpsertCall("A", todo[w][1], desired[w].ipAddress, e))]
    /\ todo' = [todo EXCEPT ![w] = NextValid(Tail(@))]
    /\ pc' = [pc EXCEPT ![w] = IF NextValid(Tail(todo[w])) = <<>> THEN "update" ELSE "list"]
    /\ UNCHANGED <<zone, err, status>>

\* A plausible slip: the named result left unset on the error path.
UpsertFailedNoStatus(w, e) ==
    /\ calls' = [calls EXCEPT ![w] =
                    Append(@, UpsertCall("A", todo[w][1], desired[w].ipAddress, e))]
    /\ err' = [err EXCEPT ![w] = e]
    /\ status' = [status EXCEPT ![w] = ""]
    /\ pc' = [pc EXCEPT ![w] = "returned"]
    /\ UNCHANGED <<zone, todo>>

\* The error path of the hostname loop.
UpsertError(w, e) == UpsertFailed(w, e)

\* UpsertDNSRecord, second half: Changes.Create with the addition and, when the
\* list returned record sets, those as deletions.  The call fails in transport,
\* or the provider rejects the change, or it is applied and the hostname loop
\* goes on to the next valid hostname.
Change(w) ==
    /\ ~Crashed
    /\ pc[w] = "change"
    /\ LET change == UpsertChange("A", todo[w][1], desired[w].ipAddress, records[w])
           verdict == ChangeError(zone, change)
       IN  \/ UpsertError(w, "transport")
           \/ /\ verdict # "nil"
              /\ UpsertError(w, verdict)
           \/ /\ verdict = "nil"
              /\ zone' = ApplyChange(zone, change)
              /\ calls' = [calls EXCEPT ![w] =
                    Append(@, UpsertCall("A", todo[w][1], desired[w].ipAddress, "nil"))]
              /\ todo' = [todo EXCEPT ![w] = NextValid(Tail(@))]
              /\ pc' = [pc EXCEPT ![w] =
                          IF NextValid(Tail(todo[w])) = <<>> THEN "update" ELSE "list"]
              /\ UNCHANGED <<status, err>>
    /\ UNCHANGED <<cluster, edits, obj, desired, records, prev>>

\* A plausible slip: `currentState = desiredState` forgotten, the stored state
\* written back.
WithStateStale(o, state) ==
    [o EXCEPT !.ann = [@ EXCEPT ![annotationGoogleCloudDNSState] = Marshal(CurrentOf(o))]]

\* The object with the state annotation set to the serialized snapshot.
WithState(o, state) ==
    [o EXCEPT !.ann = [@ EXCEPT ![annotationGoogleCloudDNSState] = Marshal(state)]]

\* The API server's verdict on client.Update: the object's resourceVersion must
\* be the stored one.
UpdateError(stored, o) == IF stored.rv # o.rv THEN "conflict" ELSE "nil"

\* The stored object after an accepted update: the metadata as sent, the status
\* as stored, a new resourceVersion.
Updated(stored, o) == [stored EXCEPT !.ann = o.ann, !.rv = @ + 1]

\* The state annotation is set on the object and client.Update is called: it
\* fails in transport, or the API server rejects a stale object or one that was
\* deleted, or the object is stored.  obj keeps the object as it was handed over: the annotation set on
\* the in-memory copy is read by nobody once make...Changes has returned.
Update(w) ==
    /\ ~Crashed
    /\ pc[w] = "update"
    /\ LET o == WithState(obj[w], desired[w])
           r == o.name
           verdict == IF r \in DOMAIN cluster THEN UpdateError(cluster[r], o)
                      ELSE "notFound"
           sent == o.ann[annotationGoogleCloudDNSState]
       IN  \/ /\ calls' = [calls EXCEPT ![w] = Append(@, UpdateCall(sent, "transport"))]
              /\ err' = [err EXCEPT ![w] = "transport"]
              /\ UNCHANGED <<cluster, status>>
           \/ /\ verdict # "nil"
              /\ calls' = [calls EXCEPT ![w] = Append(@, UpdateCall(sent, verdict))]
              /\ err' = [err EXCEPT ![w] = verdict]
              /\ UNCHANGED <<cluster, status>>
           \/ /\ verdict = "nil"
              /\ cluster' = [cluster EXCEPT ![r] = Updated(@, o)]
              /\ calls' = [calls EXCEPT ![w] = Append(@, UpdateCall(sent, "nil"))]
              /\ status' = [status EXCEPT ![w] = "succeeded"]
              /\ UNCHANGED err
    /\ pc' = [pc EXCEPT ![w] = "returned"]
    /\ UNCHANGED <<zone, edits, obj, desired, todo, records, prev>>

\* What the caller keeps of a reconciliation that returned: the object it
\* handed over, and what came back.
Returned(w) ==
    [run |-> TRUE, start |-> obj[w], desired |-> desired[w],
     status |-> status[w], err |-> err[w], calls |-> calls[w]]

\* A resource object: kind, name, the three annotations, spec.type (Services),
\* status.loadBalancer.ingress and metadata.resourceVersion.
Object(kind, name, enabled, hostnames, state, type, lb, rv) ==
    [kind |-> kind, name |-> name,
     ann |-> [k \in AnnotationKeys |->
                IF k = annotationGoogleCloudDNS THEN enabled
                ELSE IF k = annotationGoogleCloudDNSHostnames THEN hostnames
                ELSE state],
     type |-> type, lb |-> lb, rv |-> rv]

NoObject == Object("", "", Absent, Absent, Absent, "", <<>>, 0)

\* No reconciliation has returned yet.
NoRun ==
    [run |-> FALSE, start |-> NoObject, desired |-> ZeroState,
     status |-> "", err |-> "nil", calls |-> <<>>]

\* process... has returned to the trigger loop: the reconciliation's locals
\* are gone.
Forget(w) ==
    /\ ~Crashed
    /\ pc[w] = "returned"
    /\ pc' = [pc EXCEPT ![w] = "idle"]
    /\ obj' = [obj EXCEPT ![w] = NoObject]
    /\ desired' = [desired EXCEPT ![w] = ZeroState]
    /\ todo' = [todo EXCEPT ![w] = <<>>]
    /\ records' = [records EXCEPT ![w] = {}]
    /\ calls' = [calls EXCEPT ![w] = <<>>]
    /\ status' = [status EXCEPT ![w] = ""]
    /\ err' = [err EXCEPT ![w] = "nil"]
    /\ UNCHANGED <<cluster, zone, edits>>

\* process... returns to the trigger loop, which counts the status and goes on;
\* what the caller saw of the reconciliation is kept.
Return(w) ==
    /\ prev' = Returned(w)
    /\ Forget(w)

----------------------------------------------------------------------------
(* The cluster and the zone the controller runs against *)

\* how many times a resource is changed from outside in one run of the model
MaxEdits == 1

HostAB == <<"a", ".", "b">>

HostCD == <<"c", ".", "d">>

\* a single label: no valid hostname
HostBad == <<"x">>

IP1 == <<"1">>

IP2 == <<"2">>

\* The values the enable annotation takes.
EnabledAnns == {Absent, Raw(TrueText), Raw(FalseText)}

\* The values the hostnames annotation takes: one hostname, two in either
\* order, a valid one followed by an invalid one, an invalid one alone.
HostnameAnns ==
    {Absent, Raw(HostAB), Raw(Join(<<HostAB, HostCD>>, ",")),
     Raw(Join(<<HostCD, HostAB>>, ",")), Raw(Join(<<HostAB, HostBad>>, ",")),
     Raw(HostBad)}

\* The state annotation a resource can come with (a manifest is applied with
\* the annotations it was exported with): none, a text that does not parse, a
\* snapshot with another value of `enabled`, a snapshot of two hostnames.
StoredStates ==
    {Absent, Raw(<<"x">>), Marshal(GoogleCloudDNSState(FalseText, HostAB, IP1)),
     Marshal(GoogleCloudDNSState(TrueText, Join(<<HostAB, HostCD>>, ","), IP1))}

\* The load-balancer status: no entry yet, one address, two addresses, an entry
\* without an IP.
LBStatuses ==
    {<<>>, <<LBEntry(IP1)>>, <<LBEntry(IP2), LBEntry(IP1)>>, <<LBEntryNoIP>>}

\* spec.type of a Service; an Ingress has none.
TypesOf(kind) == IF kind = "service" THEN {LoadBalancer, "ClusterIP"} ELSE {""}

\* The resources of the cluster: one Service and one Ingress name.
KindOfName(r) == IF r = "svc" THEN "service" ELSE "ingress"

Resources == {"svc", "ing"}

\* The objects a resource named r can be created as.
InitialObjects(r) ==
    {Object(KindOfName(r), r, e, h, s, t, lb, 1) :
        e \in EnabledAnns, h \in HostnameAnns, s \in StoredStates,
        t \in TypesOf(KindOfName(r)), lb \in LBStatuses}

\* The values a change from outside sets: the enable annotation switched on or
\* off, the hostnames annotation removed, set to one hostname or to two, the
\* load balancer without address, with one or with a new first one.
EditEnabled == {Raw(TrueText), Raw(FalseText)}

EditHostnames == {Absent, Raw(HostAB), Raw(Join(<<HostCD, HostAB>>, ","))}

EditLBStatuses == {<<>>, <<LBEntry(IP1)>>, <<LBEntry(IP2), LBEntry(IP1)>>}

\* The objects one change from outside can turn o into: another value of the
\* enable annotation, of the hostnames annotation or of the load-balancer status.
Edited(o) ==
    ( {[o EXCEPT !.ann = [@ EXCEPT ![annotationGoogleCloudDNS] = e], !.rv = @ + 1] :
          e \in EditEnabled}
      \cup
      {[o EXCEPT !.ann = [@ EXCEPT ![annotationGoogleCloudDNSHostnames] = h], !.rv = @ + 1] :
          h \in EditHostnames}
      \cup
      {[o EXCEPT !.lb = lb, !.rv = @ + 1] : lb \in EditLBStatuses} )
    \ {[o EXCEPT !.rv = @ + 1]}

\* Somebody edits the resource r, or its load balancer is assigned an address.
Edit(r) ==
    /\ edits < MaxEdits
    /\ r \in DOMAIN cluster
    /\ \E o \in Edited(cluster[r]) : cluster' = [cluster EXCEPT ![r] = o]
    /\ edits' = edits + 1
    /\ UNCHANGED <<zone, pc, obj, desired, todo, records, calls, status, err, prev>>

\* A plausible slip: every event of the watch reconciled.
HandledAll(event) == TRUE

\* A plausible slip: every event but the first delivery reconciled.
HandledNotAdded(event) == event # "ADDED"

\* The events a watch loop hands to processService / processIngress.
Handled(event) == event \in {"ADDED", "MODIFIED"}

\* the watch loop of a kind of resource
WatcherOf(kind) == IF kind = "service" THEN "services" ELSE "ingresses"

\* The resource r is deleted and its watch loop takes the DELETED event, which
\* carries the object as it last was, from the watcher.
Delete(r) ==
    /\ ~Crashed
    /\ edits < MaxEdits
    /\ r \in DOMAIN cluster
    /\ pc[WatcherOf(cluster[r].kind)] = "idle"
    /\ cluster' = [x \in DOMAIN cluster \ {r} |-> cluster[x]]
    /\ edits' = edits + 1
    /\ IF Handled("DELETED")
       THEN Begin(WatcherOf(cluster[r].kind), cluster[r])
       ELSE UNCHANGED <<pc, obj, desired, todo, records, calls, status, err>>
    /\ UNCHANGED <<zone, prev>>

----------------------------------------------------------------------------
(* The reconciler, one reconciliation at a time *)

AllIdle == \A w \in Loops : pc[w] = "idle"

InitLoops ==
    /\ pc = [w \in Loops |-> "idle"]
    /\ obj = [w \in Loops |-> NoObject]
    /\ desired = [w \in Loops |-> ZeroState]
    /\ todo = [w \in Loops |-> <<>>]
    /\ records = [w \in Loops |-> {}]
    /\ calls = [w \in Loops |-> <<>>]
    /\ status = [w \in Loops |-> ""]
    /\ err = [w \in Loops |-> "nil"]
    /\ prev = NoRun

InitHostname == labels = <<>> /\ hostname = <<>> /\ valid = FALSE

InitJitter == input = 0 /\ output = 0

\* No call of UpsertDNSRecord yet.
InitGateway ==
    /\ gpc = "idle"
    /\ args = NoArgs
    /\ before = {}
    /\ found = {}
    /\ requests = <<>>
    /\ result = "nil"

\* The wait group as InitGracefulShutdownHandling returns it, the main
\* goroutine blocked on the signal channel.
InitShutdown ==
    /\ waitGroup = 0
    /\ shutdown = "serving"
    /\ inflight = [w \in Loops |-> FALSE]
    /\ runs = 0

\* The goroutines as main starts them: the watch loops about to open their
\* watch, the sweep loop about to list.
InitTriggers ==
    /\ lpc = [w \in Loops |-> IF w = "poller" THEN "start" ELSE "connect"]
    /\ queue = [w \in Loops |-> <<>>]
    /\ sleeping = [w \in Loops |-> 0]
    /\ lists = <<>>
    /\ faults = 0
    /\ counted = 0
    /\ totals = <<>>

Init ==
    /\ \E r \in Resources : \E o \in InitialObjects(r) : cluster = (r :> o)
    /\ zone = {}
    /\ edits = 0
    /\ InitLoops
    /\ InitHostname
    /\ InitJitter
    /\ InitGateway
    /\ InitShutdown
    /\ InitTriggers

Next ==
    \/ /\ \E w \in Loops : \E r \in Resources : AllIdle /\ Process(w, r)
       /\ UNCHANGED <<hostnameVars, jitterVars, gatewayVars, shutdownVars, triggerVars>>
    \/ /\ \E w \in Loops : List(w)
       /\ UNCHANGED <<hostnameVars, jitterVars, gatewayVars, shutdownVars, triggerVars>>
    \/ /\ \E w \in Loops : Change(w)
       /\ UNCHANGED <<hostnameVars, jitterVars, gatewayVars, shutdownVars, triggerVars>>
    \/ /\ \E w \in Loops : Update(w)
       /\ UNCHANGED <<hostnameVars, jitterVars, gatewayVars, shutdownVars, triggerVars>>
    \/ /\ \E w \in Loops : Return(w)
       /\ UNCHANGED <<hostnameVars, jitterVars, gatewayVars, shutdownVars, triggerVars>>
    \/ /\ \E r \in Resources : Edit(r)
       /\ UNCHANGED <<hostnameVars, jitterVars, gatewayVars, shutdownVars, triggerVars>>
    \/ /\ \E r \in Resources : Delete(r)
       /\ UNCHANGED <<hostnameVars, jitterVars, gatewayVars, shutdownVars, triggerVars>>

Spec == Init /\ [][Next]_vars

----------------------------------------------------------------------------
(* validateHostname on its own *)

\* the most labels a hostname is written from
MaxLabels == 3

\* The label lengths tried: empty, short, and around the bound.
LabelLengths ==
    {0, 1, MaxLabelLength - 1, MaxLabelLength, MaxLabelLength + 1, MaxLabelLength + 2}

\* The label lists a hostname is written from: 1..MaxLabels labels of letters.
LabelLists ==
    UNION {[1..n -> {Rep("a", k) : k \in LabelLengths}] : n \in 1..MaxLabels}

\* validateHostname is called on the labels joined by dots.
Validate(ls) ==
    /\ labels = <<>>
    /\ labels' = ls
    /\ hostname' = Join(ls, ".")
    /\ valid' = validateHostname(Join(ls, "."))
    /\ UNCHANGED <<reconcileVars, jitterVars, gatewayVars, shutdownVars, triggerVars>>

\* No resource, an empty zone, the loops idle: only the function is exercised.
InitPure ==
    /\ cluster = ("svc" :> NoObject)
    /\ zone = {}
    /\ edits = 0
    /\ InitLoops
    /\ InitHostname
    /\ InitJitter
    /\ InitGateway
    /\ InitShutdown
    /\ InitTriggers

NextHostname == \E ls \in LabelLists : Validate(ls)

SpecHostname == InitPure /\ [][NextHostname]_vars

----------------------------------------------------------------------------
(* applyJitter on its own *)

\* the largest base tried besides the two the loops use
MaxBase == 40

Bases == (1..MaxBase) \cup {WatchSleepBase, SweepSleepBase}

\* A loop computes its sleep time from the base b.
Sleep(b) ==
    /\ input' = b
    /\ output' \in applyJitter(b)
    /\ UNCHANGED <<reconcileVars, hostnameVars, gatewayVars, shutdownVars, triggerVars>>

NextJitter == \E b \in Bases : Sleep(b)

SpecJitter == InitPure /\ [][NextJitter]_vars

----------------------------------------------------------------------------
(* UpsertDNSRecord on its own, against a zone that holds records already *)

\* the record types a caller can ask for; the reconciler asks for A only
RecordTypes == {"A", "CNAME"}

\* The record sets a zone can hold before the controller writes: stored under
\* fully-qualified names, with the gateway's TTL or another.
ZoneRecords ==
    {[name |-> FQDN(HostAB), type |-> t, ttl |-> RecordTTL, rrdatas |-> <<v>>] :
        t \in RecordTypes, v \in {IP1, IP2}}
    \cup {[name |-> FQDN(HostCD), type |-> "A", ttl |-> 60, rrdatas |-> <<IP1>>]}

\* A zone holds at most one record set per name and type.
InitialZones ==
    {z \in SUBSET ZoneRecords :
        \A x \in z : \A y \in z : (x.name = y.name /\ x.type = y.type) => x = y}

InitGatewaySpec ==
    /\ cluster = ("svc" :> NoObject)
    /\ zone \in InitialZones
    /\ edits = 0
    /\ InitLoops
    /\ InitHostname
    /\ InitJitter
    /\ InitGateway
    /\ InitShutdown
    /\ InitTriggers

NextGateway ==
    \/ /\ \E t \in RecordTypes : \E n \in {HostAB, HostCD} : \E c \in {IP1, IP2} :
             Upsert(t, n, c)
       /\ UNCHANGED <<loopVars, hostnameVars, jitterVars, shutdownVars, triggerVars>>
    \/ /\ GatewayList
       /\ UNCHANGED <<loopVars, hostnameVars, jitterVars, shutdownVars, triggerVars>>
    \/ /\ GatewayCreate
       /\ UNCHANGED <<loopVars, hostnameVars, jitterVars, shutdownVars, triggerVars>>
    \/ /\ GatewayReturn
       /\ UNCHANGED <<loopVars, hostnameVars, jitterVars, shutdownVars, triggerVars>>

SpecGateway == InitGatewaySpec /\ [][NextGateway]_vars

----------------------------------------------------------------------------
(* The wait group and the shutdown of main, the reconciliations left out *)

\* how many reconciliations are counted before the loops are left alone
MaxRuns == 4

\* A loop is about to reconcile a resource: waitGroup.Add(1).
Add(w) ==
    /\ shutdown # "exited"
    /\ ~inflight[w]
    /\ runs < MaxRuns
    /\ waitGroup' = waitGroup + 1
    /\ inflight' = [inflight EXCEPT ![w] = TRUE]
    /\ UNCHANGED <<shutdown, runs>>

\* The reconciliation returned and was counted: waitGroup.Done().
Done(w) ==
    /\ shutdown # "exited"
    /\ inflight[w]
    /\ waitGroup' = waitGroup - 1
    /\ inflight' = [inflight EXCEPT ![w] = FALSE]
    /\ runs' = runs + 1
    /\ UNCHANGED shutdown

\* SIGTERM or SIGINT arrives on the channel main is blocked on; main goes on
\* to waitGroup.Wait().
Signal ==
    /\ shutdown = "serving"
    /\ shutdown' = "waiting"
    /\ UNCHANGED <<waitGroup, inflight, runs>>

\* waitGroup.Wait() returns: the counter is zero.
Wait ==
    /\ shutdown = "waiting"
    /\ waitGroup = 0
    /\ shutdown' = "released"
    /\ UNCHANGED <<waitGroup, inflight, runs>>

\* main logs "Shutting down..." and returns: the process and every goroutine
\* of it end.
Exit ==
    /\ shutdown = "released"
    /\ shutdown' = "exited"
    /\ UNCHANGED <<waitGroup, inflight, runs>>

NextShutdown ==
    \/ /\ \E w \in Loops : Add(w)
       /\ UNCHANGED <<reconcileVars, hostnameVars, jitterVars, gatewayVars, triggerVars>>
    \/ /\ \E w \in Loops : Done(w)
       /\ UNCHANGED <<reconcileVars, hostnameVars, jitterVars, gatewayVars, triggerVars>>
    \/ /\ Signal
       /\ UNCHANGED <<reconcileVars, hostnameVars, jitterVars, gatewayVars, triggerVars>>
    \/ /\ Wait
       /\ UNCHANGED <<reconcileVars, hostnameVars, jitterVars, gatewayVars, triggerVars>>
    \/ /\ Exit
       /\ UNCHANGED <<reconcileVars, hostnameVars, jitterVars, gatewayVars, triggerVars>>

SpecShutdown == InitPure /\ [][NextShutdown]_vars

----------------------------------------------------------------------------
(* The three trigger loops of main, running side by side *)

\* how many reconciliations the loops start in one run of the model
MaxStarts == 2

\* how many Watch, Next and List calls of the Kubernetes client fail in one run
\* of the model
MaxFaults == 1

\* The loops may start another reconciliation.
Budget == runs + waitGroup < MaxStarts

\* A call of the Kubernetes client fails.
Fault ==
    /\ faults < MaxFaults
    /\ faults' = faults + 1

\* The two watch loops.
Watchers == {"services", "ingresses"}

\* the kind of resource a watch loop watches
KindOfWatcher(w) == IF w = "services" THEN "service" ELSE "ingress"

\* A plausible slip: the sweep sleeping like the watch loops.
SleepBaseWatch(w) == WatchSleepBase

\* the argument of ApplyJitter in each loop
SleepBase(w) == IF w = "poller" THEN SweepSleepBase ELSE WatchSleepBase

\* An event of a watch, or an item of a list: the object is a copy made when
\* the event was produced or the list was answered.
Event(type, o) == [type |-> type, object |-> o]

\* the order in which the API server lists resources
ListOrder == <<"svc", "svc2", "ing">>

\* The objects of one kind the cluster c holds, in list order, each as an
\* event or item of the given type.
Items(c, kind, type) ==
    LET names == SelectSeq(ListOrder, LAMBDA r : r \in DOMAIN c /\ c[r].kind = kind)
    IN  [i \in 1..Len(names) |-> Event(type, c[names[i]])]

\* The watchers' streams after a change of the object o: the open watch of
\* its kind receives an event with a copy of o.
Notified(type, o) ==
    LET w == WatcherOf(o.kind)
    IN  IF lpc[w] = "next" THEN [queue EXCEPT ![w] = Append(@, Event(type, o))]
        ELSE queue

\* waitGroup.Add(1) and process... on the copy o, up to its first external call.
Dispatch(w, o) ==
    /\ waitGroup' = waitGroup + 1
    /\ inflight' = [inflight EXCEPT ![w] = TRUE]
    /\ Begin(w, o)
    /\ UNCHANGED <<cluster, zone, edits, prev, shutdown>>

\* time.Sleep(ApplyJitter(base)) begins.
GoToSleep(w) ==
    /\ lpc' = [lpc EXCEPT ![w] = "sleep"]
    /\ sleeping' = [sleeping EXCEPT ![w] = SleepBase(w)]

\* kubeClient.Watch: the watch is opened and first delivers every existing
\* object of the kind as ADDED, or the call fails, the error is logged and the
\* loop goes to its sleep.
Watch(w) ==
    /\ ~Crashed
    /\ w \in Watchers
    /\ lpc[w] = "connect"
    /\ \/ /\ lpc' = [lpc EXCEPT ![w] = "next"]
          /\ queue' = [queue EXCEPT ![w] = Items(cluster, KindOfWatcher(w), "ADDED")]
          /\ UNCHANGED <<sleeping, faults>>
       \/ /\ Fault
          /\ GoToSleep(w)
          /\ UNCHANGED queue
    /\ UNCHANGED <<reconcileVars, shutdownVars, lists, counted, totals>>

\* A plausible slip: the watch loop takes the newest event first.
TakenLast(q) == [event |-> q[Len(q)], rest |-> SubSeq(q, 1, Len(q) - 1)]

\* watcher.Next hands out the events in the order they arrived.
Taken(q) == [event |-> Head(q), rest |-> Tail(q)]

\* watcher.Next returns: an error (the stream broke or its 300 seconds are
\* over), and the loop breaks to its sleep; or the next event, which is
\* reconciled if it is an add or a modify and dropped otherwise.
NextEvent(w) ==
    /\ ~Crashed
    /\ w \in Watchers
    /\ lpc[w] = "next"
    /\ pc[w] = "idle"
    /\ \/ /\ Fault
          /\ GoToSleep(w)
          /\ queue' = [queue EXCEPT ![w] = <<>>]
          /\ UNCHANGED <<reconcileVars, waitGroup, inflight, shutdown>>
       \/ /\ queue[w] # <<>>
          /\ queue' = [queue EXCEPT ![w] = Taken(queue[w]).rest]
          /\ IF Handled(Taken(queue[w]).event.type)
             THEN Dispatch(w, Taken(queue[w]).event.object)
             ELSE UNCHANGED <<reconcileVars, waitGroup, inflight, shutdown>>
          /\ UNCHANGED <<lpc, sleeping, faults>>
    /\ UNCHANGED <<lists, runs, counted, totals>>

\* The sweep lists the services: kubeClient.List; an error is logged and the
\* list is empty.
ListServices ==
    /\ ~Crashed
    /\ lpc["poller"] = "start"
    /\ \E e \in TransportOutcomes :
          /\ IF e = "nil" THEN UNCHANGED faults ELSE Fault
          /\ queue' = [queue EXCEPT !["poller"] =
                         IF e = "nil" THEN Items(cluster, "service", "LISTED") ELSE <<>>]
          /\ lists' = <<e>>
    /\ lpc' = [lpc EXCEPT !["poller"] = "services"]
    /\ UNCHANGED <<reconcileVars, shutdownVars, sleeping, counted, totals>>

\* The sweep ranges over the listed services, then over the listed ingresses:
\* the next item is reconciled.
RangeItem ==
    /\ ~Crashed
    /\ lpc["poller"] \in {"services", "ingresses"}
    /\ pc["poller"] = "idle"
    /\ queue["poller"] # <<>>
    /\ queue' = [queue EXCEPT !["poller"] = Tail(@)]
    /\ Dispatch("poller", Head(queue["poller"]).object)
    /\ UNCHANGED <<lpc, sleeping, lists, faults, runs, counted, totals>>

\* The range over the services is over: the sweep lists the ingresses.
ListIngresses ==
    /\ ~Crashed
    /\ lpc["poller"] = "services"
    /\ pc["poller"] = "idle"
    /\ queue["poller"] = <<>>
    /\ \E e \in TransportOutcomes :
          /\ IF e = "nil" THEN UNCHANGED faults ELSE Fault
          /\ queue' = [queue EXCEPT !["poller"] =
                         IF e = "nil" THEN Items(cluster, "ingress", "LISTED") ELSE <<>>]
          /\ lists' = Append(lists, e)
    /\ lpc' = [lpc EXCEPT !["poller"] = "ingresses"]
    /\ UNCHANGED <<reconcileVars, shutdownVars, sleeping, counted, totals>>

\* The range over the ingresses is over: the sweep sleeps.
SweepSleep ==
    /\ ~Crashed
    /\ lpc["poller"] = "ingresses"
    /\ pc["poller"] = "idle"
    /\ queue["poller"] = <<>>
    /\ GoToSleep("poller")
    /\ UNCHANGED <<reconcileVars, shutdownVars, queue, lists, faults, counted, totals>>

\* time.Sleep returns and the for loop starts over.
Wake(w) ==
    /\ ~Crashed
    /\ lpc[w] = "sleep"
    /\ lpc' = [lpc EXCEPT ![w] = IF w = "poller" THEN "start" ELSE "connect"]
    /\ sleeping' = [sleeping EXCEPT ![w] = 0]
    /\ UNCHANGED <<reconcileVars, shutdownVars, queue, lists, faults, counted, totals>>

\* A plausible slip: break instead of continue after a failed reconciliation,
\* the rest of the events or items dropped.
FinishBreak(w) ==
    /\ Forget(w)
    /\ UNCHANGED prev
    /\ waitGroup' = waitGroup - 1
    /\ inflight' = [inflight EXCEPT ![w] = FALSE]
    /\ queue' = IF err[w] # "nil" THEN [queue EXCEPT ![w] = <<>>] ELSE queue
    /\ UNCHANGED <<shutdown, lpc, sleeping, lists, faults>>

\* *Metadata.Namespace of a resource: the two Services live in one namespace,
\* the Ingress in another.
Namespace(o) == IF o.kind = "service" THEN "ns1" ELSE "ns2"

\* prometheus.Labels of the increment after the reconciliation of loop w.
Labels(w) ==
    [namespace |-> Namespace(obj[w]), status |-> status[w],
     initiator |-> Initiator(w), type |-> obj[w].kind]

\* CounterVec.With: the counter of the labels, created at zero on first use.
With(t, l) == IF l \in DOMAIN t THEN t ELSE t @@ (l :> 0)

\* A plausible slip: a new counter made for every increment.
IncFresh(t, l) == [x \in DOMAIN t \cup {l} |-> IF x = l THEN 1 ELSE t[x]]

\* With(labels).Inc(): one atomic addition to the counter of the labels.
Inc(t, l) == [With(t, l) EXCEPT ![l] = @ + 1]

\* process... has returned to its loop: waitGroup.Done() is called, an error
\* is logged, and the loop goes on with the next event or item.
Finish(w) ==
    /\ Forget(w)
    /\ UNCHANGED prev
    /\ waitGroup' = waitGroup - 1
    /\ inflight' = [inflight EXCEPT ![w] = FALSE]
    /\ UNCHANGED <<shutdown, lpc, queue, sleeping, lists, faults>>

\* The same, the increment of dnsRecordsTotals and the completed
\* reconciliation counted; which counter is incremented is left to Tally.
Count(w) ==
    /\ Finish(w)
    /\ counted' = counted + 1
    /\ runs' = runs + 1

\* client.Update of a reconciliation; an accepted update is a change of the
\* resource like any other, and the open watch of its kind gets a MODIFIED event.
Store(w) ==
    /\ Update(w)
    /\ queue' = IF cluster' # cluster
                THEN Notified("MODIFIED", cluster'[obj[w].name])
                ELSE queue
    /\ UNCHANGED <<shutdownVars, lpc, sleeping, lists, faults, counted, totals>>

\* The load balancer of a resource is given another address.
Reassigned(o) ==
    [o EXCEPT !.lb = IF @ = <<LBEntry(IP1)>> THEN <<LBEntry(IP2), LBEntry(IP1)>>
                     ELSE <<LBEntry(IP1)>>,
              !.rv = @ + 1]

\* A change from outside, seen by the open watch as a MODIFIED event.
Modify(r) ==
    /\ edits < MaxEdits
    /\ r \in DOMAIN cluster
    /\ cluster' = [cluster EXCEPT ![r] = Reassigned(@)]
    /\ edits' = edits + 1
    /\ queue' = Notified("MODIFIED", cluster'[r])
    /\ UNCHANGED <<zone, pc, obj, desired, todo, records, calls, status, err, prev,
                   shutdownVars, lpc, sleeping, lists, faults, counted, totals>>

\* The resource r is deleted; the open watch gets a DELETED event with the
\* object as it last was.
Remove(r) ==
    /\ edits < MaxEdits
    /\ r \in DOMAIN cluster
    /\ cluster' = [x \in DOMAIN cluster \ {r} |-> cluster[x]]
    /\ edits' = edits + 1
    /\ queue' = Notified("DELETED", cluster[r])
    /\ UNCHANGED <<zone, pc, obj, desired, todo, records, calls, status, err, prev,
                   shutdownVars, lpc, sleeping, lists, faults, counted, totals>>

\* The resources the loops are run against: two Services and an Ingress, all
\* enabled and with an address, the Ingress claiming a hostname of a Service.
LoopObjects ==
    [svc |-> Object("service", "svc", Raw(TrueText), Raw(HostAB), Absent,
                    LoadBalancer, <<LBEntry(IP1)>>, 1),
     svc2 |-> Object("service", "svc2", Raw(TrueText), Raw(HostCD), Absent,
                     LoadBalancer, <<LBEntry(IP1)>>, 1),
     ing |-> Object("ingress", "ing", Raw(TrueText), Raw(HostAB), Absent,
                    "", <<LBEntry(IP2)>>, 1)]

\* The clusters the loops start on.
LoopClusters ==
    {[r \in rs |-> LoopObjects[r]] : rs \in {{"svc"}, {"svc", "svc2"}, {"svc", "ing"}}}

InitLoopsSpec ==
    /\ cluster \in LoopClusters
    /\ zone = {}
    /\ edits = 0
    /\ InitLoops
    /\ InitHostname
    /\ InitJitter
    /\ InitGateway
    /\ InitShutdown
    /\ InitTriggers

\* The steps of the loops but the return of a reconciliation.
NextTriggers ==
    \/ /\ \E w \in Watchers : Watch(w)
       /\ UNCHANGED <<hostnameVars, jitterVars, gatewayVars>>
    \/ /\ Budget
       /\ \E w \in Watchers : NextEvent(w)
       /\ UNCHANGED <<hostnameVars, jitterVars, gatewayVars>>
    \/ /\ ListServices
       /\ UNCHANGED <<hostnameVars, jitterVars, gatewayVars>>
    \/ /\ Budget
       /\ RangeItem
       /\ UNCHANGED <<hostnameVars, jitterVars, gatewayVars>>
    \/ /\ ListIngresses
       /\ UNCHANGED <<hostnameVars, jitterVars, gatewayVars>>
    \/ /\ SweepSleep
       /\ UNCHANGED <<hostnameVars, jitterVars, gatewayVars>>
    \/ /\ \E w \in Loops : Wake(w)
       /\ UNCHANGED <<hostnameVars, jitterVars, gatewayVars>>
    \/ /\ \E w \in Loops : List(w)
       /\ UNCHANGED <<hostnameVars, jitterVars, gatewayVars, shutdownVars, triggerVars>>
    \/ /\ \E w \in Loops : Change(w)
       /\ UNCHANGED <<hostnameVars, jitterVars, gatewayVars, shutdownVars, triggerVars>>
    \/ /\ \E w \in Loops : Store(w)
       /\ UNCHANGED <<hostnameVars, jitterVars, gatewayVars>>
    \/ /\ \E r \in DOMAIN LoopObjects : Remove(r)
       /\ UNCHANGED <<hostnameVars, jitterVars, gatewayVars>>

\* The loops, the increments counted but not told apart by their labels.
NextLoops ==
    \/ NextTriggers
    \/ /\ \E w \in Loops : Count(w)
       /\ UNCHANGED <<hostnameVars, jitterVars, gatewayVars, totals>>

SpecLoops == InitLoopsSpec /\ [][NextLoops]_vars

----------------------------------------------------------------------------
(* The loops and the counters of dnsRecordsTotals, one by its labels *)

\* process... has returned: the counter of the resource's namespace, the
\* returned status, the loop's initiator and the resource's type is incremented.
Tally(w) ==
    /\ Count(w)
    /\ totals' = Inc(totals, Labels(w))

InitTotals ==
    /\ cluster \in {[r \in rs |-> LoopObjects[r]] : rs \in {{"svc"}, {"svc", "ing"}}}
    /\ zone = {}
    /\ edits = 0
    /\ InitLoops
    /\ InitHostname
    /\ InitJitter
    /\ InitGateway
    /\ InitShutdown
    /\ InitTriggers

NextTotals ==
    \/ NextTriggers
    \/ /\ \E w \in Loops : Tally(w)
       /\ UNCHANGED <<hostnameVars, jitterVars, gatewayVars>>

SpecTotals == InitTotals /\ [][NextTotals]_vars

----------------------------------------------------------------------------
(* One Service, reconciled by its watch loop and by the sweep while its
   address changes *)

InitRace ==
    /\ cluster = [r \in {"svc"} |-> LoopObjects[r]]
    /\ zone = {}
    /\ edits = 0
    /\ InitLoops
    /\ InitHostname
    /\ InitJitter
    /\ InitGateway
    /\ InitShutdown
    /\ InitTriggers

NextRace ==
    \/ NextLoops
    \/ /\ \E r \in DOMAIN LoopObjects : Modify(r)
       /\ UNCHANGED <<hostnameVars, jitterVars, gatewayVars>>

SpecRace == InitRace /\ [][NextRace]_vars

----------------------------------------------------------------------------
(* What the claims speak of *)

\* The loop w is inside processService / processIngress, or it has just returned.
Running(w) == pc[w] \in {"list", "change", "update", "returned"}

\* The reconciliation of loop w went past the gate and the drift check.
Acted(w) ==
    \/ pc[w] \in {"list", "change", "update"}
    \/ pc[w] = "returned" /\ calls[w] # <<>>

\* Every call of the sequence succeeded.
AllOk(cs) == \A i \in 1..Len(cs) : cs[i].err = "nil"

IsUpsert(c) == c.op = "upsert"

IsUpdate(c) == c.op = "update"

\* The (name, value) pairs of the upserts of a call sequence, in order.
UpsertTargets(cs) ==
    LET us == SelectSeq(cs, IsUpsert)
    IN  [i \in 1..Len(us) |-> <<us[i].type, us[i].name, us[i].value>>]

\* The snapshot is inactive: not enabled, or no hostnames, or no address.
Inactive(d) == d.enabled # TrueText \/ d.hostnames = <<>> \/ d.ipAddress = <<>>

\* The object passes the gate and has drift.
PassesWithDrift(o) ==
    /\ ~DerefPanics(o)
    /\ ~Inactive(DesiredOf(o))
    /\ \/ DesiredOf(o).ipAddress # CurrentOf(o).ipAddress
       \/ DesiredOf(o).hostnames # CurrentOf(o).hostnames

\* The valid hostnames of a snapshot, in list order.
ValidHostnames(d) == SelectSeq(Split(d.hostnames, ","), validateHostname)

\* The calls of a reconciliation that upserts every valid hostname of d and
\* then persists d, all succeeding.
FullRun(d) ==
    [i \in 1..Len(ValidHostnames(d)) |->
        UpsertCall("A", ValidHostnames(d)[i], d.ipAddress, "nil")]
    \o <<UpdateCall(Marshal(d), "nil")>>

\* b is the resource a as the cluster holds it after one accepted update of the
\* state annotation and no change from outside.
OnlyStateWritten(a, b) ==
    /\ b.kind = a.kind /\ b.name = a.name /\ b.type = a.type /\ b.lb = a.lb
    /\ b.ann[annotationGoogleCloudDNS] = a.ann[annotationGoogleCloudDNS]
    /\ b.ann[annotationGoogleCloudDNSHostnames] = a.ann[annotationGoogleCloudDNSHostnames]
    /\ b.rv = a.rv + 1

----------------------------------------------------------------------------
(* Claims *)

\* C1: a resource whose desired snapshot is not enabled, or has no hostnames, or
\* has no address is skipped: the reconciliation returns skipped with no error
\* and issues no DNS upsert and no update call, whatever the state annotation
\* holds.
C1_InactiveIsSkipped ==
    \A w \in Loops :
        (Running(w) /\ Inactive(DesiredOf(obj[w])))
        => /\ pc[w] = "returned"
           /\ status[w] = "skipped"
           /\ err[w] = "nil"
           /\ calls[w] = <<>>

\* An inactive resource whose stored snapshot differs from the desired one in
\* hostnames or address was reconciled and skipped.
C1_Witness ==
    \E w \in Loops :
        /\ pc[w] = "returned"
        /\ status[w] = "skipped"
        /\ Inactive(DesiredOf(obj[w]))
        /\ Has(obj[w].ann, annotationGoogleCloudDNSState)
        /\ CurrentOf(obj[w]).hostnames # DesiredOf(obj[w]).hostnames

\* C2: a resource whose desired snapshot equals the stored one in all three
\* fields is skipped, with no DNS upsert and no update call.
C2_NoDriftIsSkipped ==
    \A w \in Loops :
        (Running(w) /\ DesiredOf(obj[w]) = CurrentOf(obj[w]))
        => /\ pc[w] = "returned"
           /\ status[w] = "skipped"
           /\ err[w] = "nil"
           /\ calls[w] = <<>>

\* An enabled resource with hostnames and an address, stored and desired
\* snapshots equal, was reconciled and skipped.
C2_Witness ==
    \E w \in Loops :
        /\ pc[w] = "returned"
        /\ status[w] = "skipped"
        /\ DesiredOf(obj[w]) = CurrentOf(obj[w])
        /\ ~Inactive(DesiredOf(obj[w]))

\* C3: for a resource with no state annotation, enabled, with one valid hostname
\* h and the address ip, when every external call succeeds the reconciliation
\* issues exactly the upsert (A, h, ip), after it exactly one update call whose
\* state annotation is the JSON of the desired snapshot, and returns succeeded.
C3_FirstWrite ==
    \A w \in Loops :
        LET o == obj[w]
            d == DesiredOf(o)
        IN  ( /\ pc[w] = "returned"
              /\ ~Has(o.ann, annotationGoogleCloudDNSState)
              /\ ~Inactive(d)
              /\ Len(Split(d.hostnames, ",")) = 1
              /\ validateHostname(d.hostnames)
              /\ AllOk(calls[w]) )
            => /\ calls[w] = <<UpsertCall("A", d.hostnames, d.ipAddress, "nil"),
                               UpdateCall(Marshal(d), "nil")>>
               /\ status[w] = "succeeded"
               /\ err[w] = "nil"
               /\ o.name \in DOMAIN cluster
                  => /\ cluster[o.name].ann[annotationGoogleCloudDNSState] = Marshal(d)
                     /\ Unmarshal(cluster[o.name].ann[annotationGoogleCloudDNSState]).state = d

\* A resource without state annotation and with one valid hostname was written
\* and persisted.
C3_Witness ==
    \E w \in Loops :
        /\ pc[w] = "returned"
        /\ status[w] = "succeeded"
        /\ ~Has(obj[w].ann, annotationGoogleCloudDNSState)
        /\ DesiredOf(obj[w]).hostnames = HostAB
        /\ Len(calls[w]) = 2

\* C4: idempotence, for Services and Ingresses: a reconciliation of a resource
\* that passes the gate and has drift, all of whose calls succeed, returns
\* succeeded; and the next reconciliation of that resource, nothing but that
\* write having changed it, returns skipped and issues no call.
C4_Idempotent ==
    \A w \in Loops :
        pc[w] = "returned"
        => /\ (PassesWithDrift(obj[w]) /\ AllOk(calls[w]))
              => status[w] = "succeeded"
           /\ ( /\ prev.run
                /\ PassesWithDrift(prev.start)
                /\ AllOk(prev.calls)
                /\ OnlyStateWritten(prev.start, obj[w]) )
              => /\ prev.status = "succeeded"
                 /\ status[w] = "skipped"
                 /\ err[w] = "nil"
                 /\ calls[w] = <<>>

\* An Ingress was reconciled with success and then, unchanged from outside,
\* reconciled again and skipped.
C4_Witness ==
    \E w \in Loops :
        /\ pc[w] = "returned"
        /\ prev.run
        /\ prev.status = "succeeded"
        /\ PassesWithDrift(prev.start)
        /\ OnlyStateWritten(prev.start, obj[w])
        /\ obj[w].kind = "ingress"
        /\ status[w] = "skipped"

\* C5: with the gate and the drift check passed and every external call
\* succeeding, the reconciliation upserts each valid hostname of the list, in
\* list order, and no invalid one, then persists the snapshot through one update
\* call and returns succeeded.
C5_ValidHostnamesUpserted ==
    \A w \in Loops :
        (pc[w] = "returned" /\ PassesWithDrift(obj[w]) /\ AllOk(calls[w]))
        => /\ calls[w] = FullRun(DesiredOf(obj[w]))
           /\ status[w] = "succeeded"
           /\ err[w] = "nil"

\* A list of a valid hostname followed by an invalid one was reconciled: one
\* upsert, for the valid hostname, then the update.
C5_Witness ==
    \E w \in Loops :
        /\ pc[w] = "returned"
        /\ status[w] = "succeeded"
        /\ DesiredOf(obj[w]).hostnames = Join(<<HostAB, HostBad>>, ",")
        /\ UpsertTargets(calls[w]) = <<<<"A", HostAB, DesiredOf(obj[w]).ipAddress>>>>
        /\ IsUpdate(calls[w][Len(calls[w])])

\* C6: when the upsert for the k-th hostname returns an error, the
\* reconciliation returns failed with that error, the failed upsert is its last
\* call (no later upsert, no update call), the stored state annotation is the
\* one the reconciliation started from, and the records of the earlier
\* hostnames are in the zone.
C6_UpsertErrorAborts ==
    \A w \in Loops :
        \A k \in 1..Len(calls[w]) :
            (pc[w] = "returned" /\ IsUpsert(calls[w][k]) /\ calls[w][k].err # "nil")
            => /\ k = Len(calls[w])
               /\ status[w] = "failed"
               /\ err[w] = calls[w][k].err
               /\ \A j \in 1..Len(calls[w]) : ~IsUpdate(calls[w][j])
               /\ obj[w].name \in DOMAIN cluster
                  => cluster[obj[w].name].ann[annotationGoogleCloudDNSState]
                        = obj[w].ann[annotationGoogleCloudDNSState]
               /\ \A j \in 1..(k - 1) :
                    RecordSet("A", calls[w][j].name, calls[w][j].value) \in zone

\* The upsert of the second hostname failed after the first one was written.
C6_Witness ==
    \E w \in Loops :
        /\ pc[w] = "returned"
        /\ Len(calls[w]) = 2
        /\ IsUpsert(calls[w][1]) /\ calls[w][1].err = "nil"
        /\ IsUpsert(calls[w][2]) /\ calls[w][2].err # "nil"
        /\ status[w] = "failed"

\* The reconciliation p wrote every hostname and then failed in the update call.
UpdateFailedRun(p) ==
    /\ p.run
    /\ p.calls # <<>>
    /\ IsUpdate(p.calls[Len(p.calls)])
    /\ p.calls[Len(p.calls)].err # "nil"
    /\ \A i \in 1..(Len(p.calls) - 1) : IsUpsert(p.calls[i]) /\ p.calls[i].err = "nil"

\* No call of the sequence failed in transport.
NoTransportError(cs) == \A i \in 1..Len(cs) : cs[i].err # "transport"

\* C7: when every upsert succeeded and the update call failed, the
\* reconciliation returns failed with the update's error, the records stay in
\* the zone and the stored state annotation is unchanged; and the next
\* reconciliation of the resource, read from the cluster as the first one read
\* it (no call of it failing in transport), finds drift and issues the same
\* sequence of upserts.
C7_RetryResendsUpserts ==
    \A w \in Loops :
        ( /\ pc[w] = "returned"
          /\ UpdateFailedRun(prev)
          /\ obj[w] = prev.start
          /\ NoTransportError(calls[w]) )
        => /\ prev.status = "failed"
           /\ prev.err = prev.calls[Len(prev.calls)].err
           /\ PassesWithDrift(obj[w])
           /\ UpsertTargets(calls[w]) = UpsertTargets(prev.calls)

\* C8: given that the gate passes, the reconciliation acts exactly when the
\* desired address differs from the stored one or the desired hostnames string
\* differs from the stored one; a difference in `enabled` alone is no drift; and
\* a reordering of the same hostnames is drift: when its calls succeed, every
\* valid hostname is upserted again, in the new order.
C8_ActsIffDrift ==
    \A w \in Loops :
        LET d == DesiredOf(obj[w])
            c == CurrentOf(obj[w])
            old == Split(c.hostnames, ",")
            new == Split(d.hostnames, ",")
        IN  (Running(w) /\ ~Inactive(d))
            => /\ Acted(w) <=> (d.ipAddress # c.ipAddress \/ d.hostnames # c.hostnames)
               /\ ( /\ pc[w] = "returned"
                    /\ d.hostnames # c.hostnames
                    /\ {old[i] : i \in 1..Len(old)} = {new[i] : i \in 1..Len(new)}
                    /\ AllOk(calls[w]) )
                  => UpsertTargets(calls[w]) =
                        [i \in 1..Len(ValidHostnames(d)) |->
                            <<"A", ValidHostnames(d)[i], d.ipAddress>>]

\* A resource stored with the hostnames a.b,c.d and the same address was
\* reconciled with the hostnames c.d,a.b: both were upserted, c.d first.
C8_Witness ==
    \E w \in Loops :
        /\ pc[w] = "returned"
        /\ status[w] = "succeeded"
        /\ CurrentOf(obj[w]).hostnames = Join(<<HostAB, HostCD>>, ",")
        /\ DesiredOf(obj[w]).hostnames = Join(<<HostCD, HostAB>>, ",")
        /\ CurrentOf(obj[w]).ipAddress = DesiredOf(obj[w]).ipAddress
        /\ UpsertTargets(calls[w]) =
              <<<<"A", HostCD, DesiredOf(obj[w]).ipAddress>>,
                <<"A", HostAB, DesiredOf(obj[w]).ipAddress>>>>

\* C9: validateHostname returns true exactly for a name of at least 2
\* dot-separated labels, each of at most 63 characters: a.b.com is valid, a
\* single label is not, a name with a 64-character label is not, a name with a
\* 63-character label is.
C9_ValidateHostname ==
    /\ labels # <<>>
       => (valid <=> /\ Len(labels) >= 2
                     /\ \A i \in 1..Len(labels) : Len(labels[i]) <= 63)
    /\ validateHostname(<<"a", ".", "b", ".", "c", "o", "m">>)
    /\ ~validateHostname(<<"s", "i", "n", "g", "l", "e">>)
    /\ ~validateHostname(Rep("a", 64) \o <<".", "c", "o", "m">>)
    /\ validateHostname(Rep("a", 63) \o <<".", "c", "o", "m">>)

\* A name with a 63-character label and a second label was found valid.
C9_Witness ==
    /\ Len(labels) = 2
    /\ Len(labels[1]) = 63
    /\ Len(hostname) = 63 + 1 + Len(labels[2])
    /\ valid

\* C10: a sleep value of applyJitter(b) is b - d + k with d = floor(0.25 * b) and
\* k an integer of [0, 2d): for the base 30 it lies in [22, 37], for the base
\* 900 in [675, 1125].
C10_JitterWindow ==
    input # 0
    => /\ \E k \in 0..(2 * (input \div 4) - 1) : output = input - (input \div 4) + k
       /\ 4 * output >= 3 * input - 3
       /\ 4 * output < 5 * input
       /\ input = 30 => (22 <= output /\ output <= 37)
       /\ input = 900 => (675 <= output /\ output <= 1125)

\* The sweep loop drew the largest sleep value of the base 900.
C10_Witness == input = 900 /\ output = 1124

\* One sequence is the beginning of the other.
Comparable(s, t) ==
    \A i \in 1..(IF Len(s) < Len(t) THEN Len(s) ELSE Len(t)) : s[i] = t[i]

\* The zone holds no record set under the name of a hostname of d.
NoRecordOf(d) ==
    \A i \in 1..Len(ValidHostnames(d)) :
        \A rr \in zone : rr.name # ValidHostnames(d)[i] \o <<".">>

\* C14: what a reconciliation decides depends on the resource alone, not on
\* the zone: a resource whose stored snapshot equals the desired one is skipped
\* whatever the zone holds, its record missing included; and two
\* reconciliations of the same resource object, the zone having changed in
\* between, both skip or both act, and act on the same hostnames in the same
\* order as far as each gets.
C14_ZoneBlind ==
    \A w \in Loops :
        /\ (Running(w) /\ DesiredOf(obj[w]) = CurrentOf(obj[w]))
           => (pc[w] = "returned" /\ status[w] = "skipped" /\ calls[w] = <<>>)
        /\ (pc[w] = "returned" /\ prev.run /\ obj[w] = prev.start)
           => /\ (status[w] = "skipped") <=> (prev.status = "skipped")
              /\ (calls[w] = <<>>) <=> (prev.calls = <<>>)
              /\ Comparable(UpsertTargets(calls[w]), UpsertTargets(prev.calls))
              /\ desired[w] = prev.desired

\* A resource with stored and desired snapshots equal, active, was skipped
\* while the zone held no record of its hostnames.
C14_Witness ==
    \E w \in Loops :
        /\ pc[w] = "returned"
        /\ status[w] = "skipped"
        /\ ~Inactive(desired[w])
        /\ desired[w] = CurrentOf(obj[w])
        /\ ValidHostnames(desired[w]) # <<>>
        /\ NoRecordOf(desired[w])

\* The state annotation of o is absent or no JSON object.
NoStoredState(o) == o.ann[annotationGoogleCloudDNSState].form \in {"absent", "raw"}

\* C15: the current snapshot of a resource whose state annotation is absent or
\* does not parse is the zero value; such a resource, when it passes the gate,
\* is reconciled as having drift: every valid hostname is upserted and, the
\* calls succeeding, the state annotation is rewritten with the desired
\* snapshot.
C15_MalformedStateIsNoState ==
    \A w \in Loops :
        LET o == obj[w]
            d == DesiredOf(o)
        IN  (Running(w) /\ NoStoredState(o))
            => /\ CurrentOf(o) = ZeroState
               /\ ~Inactive(d) => Acted(w)
               /\ (pc[w] = "returned" /\ ~Inactive(d) /\ AllOk(calls[w]))
                  => /\ calls[w] = FullRun(d)
                     /\ status[w] = "succeeded"
                     /\ o.name \in DOMAIN cluster
                        => cluster[o.name].ann[annotationGoogleCloudDNSState] = Marshal(d)

\* A Service whose state annotation did not parse was written again and its
\* state annotation replaced.
C15_Witness ==
    \E w \in Loops :
        /\ pc[w] = "returned"
        /\ status[w] = "succeeded"
        /\ obj[w].kind = "service"
        /\ obj[w].ann[annotationGoogleCloudDNSState].form = "raw"
        /\ Len(calls[w]) >= 2
        /\ obj[w].name \in DOMAIN cluster
        /\ cluster[obj[w].name].ann[annotationGoogleCloudDNSState].form = "json"

\* C16: after a reconciliation that returned succeeded, the current snapshot
\* read from the resource as the cluster holds it, Service or Ingress, is the
\* desired snapshot of that reconciliation.
C16_RoundTrip ==
    \A w \in Loops :
        (pc[w] = "returned" /\ status[w] = "succeeded" /\ obj[w].name \in DOMAIN cluster)
        => /\ CurrentOf(cluster[obj[w].name]) = desired[w]
           /\ desired[w] = DesiredOf(obj[w])
           /\ Has(cluster[obj[w].name].ann, annotationGoogleCloudDNSState)

\* An Ingress was reconciled with success and its stored snapshot reads back
\* as the snapshot of two hostnames that was persisted.
C16_Witness ==
    \E w \in Loops :
        /\ pc[w] = "returned"
        /\ status[w] = "succeeded"
        /\ obj[w].kind = "ingress"
        /\ obj[w].name \in DOMAIN cluster
        /\ desired[w].hostnames = Join(<<HostCD, HostAB>>, ",")
        /\ getCurrentIngressState(cluster[obj[w].name]) = desired[w]

\* The resource is of a kind and type that takes its address from the
\* load-balancer status, and the status has an entry.
HasAddressSource(o) ==
    /\ o.kind = "ingress" \/ o.type = "LoadBalancer"
    /\ Len(o.lb) > 0

\* C17: the desired snapshot's ipAddress is the IP of the first load-balancer
\* entry exactly when the resource is an Ingress or a Service of type
\* LoadBalancer and its status lists an entry; otherwise it is empty and the
\* reconciliation returns skipped.  enabled is "false" and hostnames is empty
\* when their annotation is absent, the annotation's text otherwise.
C17_DesiredAddress ==
    \A w \in Loops :
        LET o == obj[w]
            d == desired[w]
        IN  Running(w)
            => /\ HasAddressSource(o) => (d.ipAddress = o.lb[1].ip /\ d.ipAddress # <<>>)
               /\ ~HasAddressSource(o)
                  => /\ d.ipAddress = <<>>
                     /\ pc[w] = "returned"
                     /\ status[w] = "skipped"
                     /\ calls[w] = <<>>
               /\ d.enabled = IF o.ann[annotationGoogleCloudDNS].form = "absent"
                               THEN <<"f", "a", "l", "s", "e">>
                               ELSE o.ann[annotationGoogleCloudDNS].text
               /\ d.hostnames = IF o.ann[annotationGoogleCloudDNSHostnames].form = "absent"
                                 THEN <<>>
                                 ELSE o.ann[annotationGoogleCloudDNSHostnames].text

\* An enabled Service of type ClusterIP with hostnames, whose status lists an
\* address, was skipped with an empty ipAddress.
C17_Witness ==
    \E w \in Loops :
        /\ pc[w] = "returned"
        /\ status[w] = "skipped"
        /\ obj[w].kind = "service"
        /\ obj[w].type = "ClusterIP"
        /\ Len(obj[w].lb) > 0
        /\ desired[w].enabled = TrueText
        /\ desired[w].hostnames # <<>>
        /\ desired[w].ipAddress = <<>>

\* C18: getDesiredState returns a snapshot for every resource: no loop ever
\* ends in a panic, whatever the resource's annotations and load-balancer
\* status.
C18_NoErrorPath == \A w \in Loops : pc[w] # "panicked"

\* A resource was deleted in this step.
DeleteStep == DOMAIN cluster' # DOMAIN cluster

\* The loop w starts, in this step, the reconciliation of a resource that is
\* not enabled.
DisabledStart(w) ==
    /\ pc[w] = "idle"
    /\ pc'[w] \notin {"idle", "panicked"}
    /\ desired'[w].enabled # TrueText

\* C19: the controller removes no record: in every step, a record set that
\* leaves the zone is replaced in that step by one of the same name and type,
\* and each record set the controller is about to send as a deletion has the
\* type and the name of the record the same change adds; the deletion of a
\* resource starts no reconciliation and changes nothing in the zone, and the
\* reconciliation of a resource that is not enabled returns at once without a
\* call.
C19_NoRecordRemoved ==
    [][ /\ \A rr \in zone \ zone' :
              \E a \in zone' \ zone : a.name = rr.name /\ a.type = rr.type
        /\ \A w \in Loops :
              pc'[w] = "change"
              => \A rr \in records'[w] :
                    /\ rr.type = "A"
                    /\ rr.name \in {todo'[w][1], todo'[w][1] \o <<".">>}
        /\ DeleteStep => (pc' = pc /\ calls' = calls /\ zone' = zone)
        /\ \A w \in Loops :
              DisabledStart(w)
              => (pc'[w] = "returned" /\ calls'[w] = <<>> /\ zone' = zone)
      ]_vars

\* The resource was deleted after its record was written, and the record is
\* still in the zone.
C19_Witness ==
    /\ DOMAIN cluster = {}
    /\ \E rr \in zone : rr.name = <<"a", ".", "b", ".">> /\ rr.type = "A"
    /\ \A w \in Loops : pc[w] = "idle"

----------------------------------------------------------------------------
(* Claims about the gateway, under SpecGateway *)

\* The create requests a call of UpsertDNSRecord has sent.
CreateRequests == SelectSeq(requests, LAMBDA q : q.op = "create")

\* The record sets of z stored under the fully-qualified name and the type of
\* the call's arguments.
StoredFor(z) == {rr \in z : rr.name = args.name \o <<".">> /\ rr.type = args.type}

\* No request of the call failed in transport.
AllAnswered == \A i \in 1..Len(requests) : requests[i].err # "transport"

\* C11: every change a call of UpsertDNSRecord(type, name, value) submits has
\* exactly one addition: the record set named name followed by a dot, of the
\* given type, with TTL 300 and the single value given; an accepted change
\* leaves that record set in the zone.
C11_OneAddition ==
    /\ \A i \in 1..Len(requests) :
          requests[i].op = "create"
          => requests[i].change.additions =
                {[name |-> args.name \o <<".">>, type |-> args.type, ttl |-> 300,
                  rrdatas |-> <<args.content>>]}
    /\ (gpc = "returned" /\ result = "nil")
       => [name |-> args.name \o <<".">>, type |-> args.type, ttl |-> 300,
           rrdatas |-> <<args.content>>] \in zone

\* UpsertDNSRecord("A", a.b, 2) returned without error and the zone holds the
\* record set a.b. A 300 2.
C11_Witness ==
    /\ gpc = "returned"
    /\ result = "nil"
    /\ args = Args("A", HostAB, IP2)
    /\ Len(CreateRequests) = 1
    /\ [name |-> <<"a", ".", "b", ".">>, type |-> "A", ttl |-> 300,
        rrdatas |-> <<IP2>>] \in zone

\* C12: UpsertDNSRecord replaces: when the zone holds a record set of the given
\* type under the fully-qualified name of the hostname and no request fails in
\* transport, the change carries that record set as a deletion, the upsert
\* succeeds, and the zone then holds exactly one record set for that name and
\* type, with the new value.
C12_TrueReplace ==
    (gpc = "returned" /\ StoredFor(before) # {} /\ AllAnswered)
    => /\ Len(CreateRequests) = 1
       /\ StoredFor(before) \subseteq CreateRequests[1].change.deletions
       /\ result = "nil"
       /\ StoredFor(zone) =
             {[name |-> args.name \o <<".">>, type |-> args.type, ttl |-> 300,
               rrdatas |-> <<args.content>>]}

\* C13: an error of the provider during UpsertDNSRecord, in the list request
\* or in the create request, is the error the call returns; and the call sends
\* each request once (no retry).
C13_ErrorsReturned ==
    gpc = "returned"
    => /\ \A i \in 1..Len(requests) :
             requests[i].err # "nil" => result = requests[i].err
       /\ Len(SelectSeq(requests, LAMBDA q : q.op = "list")) = 1
       /\ Len(CreateRequests) = 1

----------------------------------------------------------------------------
(* Claims about the shutdown, under SpecShutdown *)

\* C20: once a termination signal was received the process does not exit
\* while a reconciliation is in flight: when the process has exited, every
\* reconciliation that incremented the wait group has decremented it.
C20_NoExitInFlight ==
    shutdown = "exited" => (waitGroup = 0 /\ \A w \in Loops : ~inflight[w])

\* C21: after a termination signal was received no trigger loop starts a new
\* reconciliation: from the signal on, no loop goes from outside a
\* reconciliation to inside one (waitGroup.Add(1) followed by process...).
C21_NoNewWorkAfterSignal ==
    [][shutdown # "serving" => \A w \in Loops : inflight'[w] => inflight[w]]_vars

----------------------------------------------------------------------------
(* The sweep on its own, scheduled fairly: no watch is ever opened, so every
   watch event is lost *)

\* The resources the sweep is run against, one at a time: a Service or an
\* Ingress with one hostname, with two, or with a valid and an invalid one.
SweepObjects ==
    {Object(k, IF k = "service" THEN "svc" ELSE "ing", Raw(TrueText), h, Absent,
            IF k = "service" THEN LoadBalancer ELSE "", <<LBEntry(IP1)>>, 1) :
        k \in {"service", "ingress"},
        h \in {Raw(HostAB), Raw(Join(<<HostAB, HostCD>>, ",")),
               Raw(Join(<<HostAB, HostBad>>, ","))}}

InitSweep ==
    /\ \E o \in SweepObjects : cluster = (o.name :> o)
    /\ zone = {}
    /\ edits = 0
    /\ InitLoops
    /\ InitHostname
    /\ InitJitter
    /\ InitGateway
    /\ InitShutdown
    /\ InitTriggers

NextSweep ==
    \/ /\ ListServices
       /\ UNCHANGED <<hostnameVars, jitterVars, gatewayVars>>
    \/ /\ RangeItem
       /\ UNCHANGED <<hostnameVars, jitterVars, gatewayVars>>
    \/ /\ ListIngresses
       /\ UNCHANGED <<hostnameVars, jitterVars, gatewayVars>>
    \/ /\ SweepSleep
       /\ UNCHANGED <<hostnameVars, jitterVars, gatewayVars>>
    \/ /\ Wake("poller")
       /\ UNCHANGED <<hostnameVars, jitterVars, gatewayVars>>
    \/ /\ List("poller")
       /\ UNCHANGED <<hostnameVars, jitterVars, gatewayVars, shutdownVars, triggerVars>>
    \/ /\ Change("poller")
       /\ UNCHANGED <<hostnameVars, jitterVars, gatewayVars, shutdownVars, triggerVars>>
    \/ /\ Store("poller")
       /\ UNCHANGED <<hostnameVars, jitterVars, gatewayVars>>
    \/ /\ Finish("poller")
       /\ UNCHANGED <<hostnameVars, jitterVars, gatewayVars, runs, counted, totals>>

\* The sweep goroutine is scheduled again and again, and its calls return.
SpecSweep == InitSweep /\ [][NextSweep]_vars /\ WF_vars(NextSweep)

----------------------------------------------------------------------------
(* Claims about the trigger loops, under SpecLoops *)

\* C22: the safety-net scan of all services recurs about every 300 seconds:
\* the sleep between the end of one sweep and the start of the next is a
\* jittered value around a base of 300 seconds.
C22_SweepEvery300 ==
    lpc["poller"] = "sleep" => applyJitter(sleeping["poller"]) = applyJitter(300)

\* The loop w takes the next event or item in this step.
Takes(w) ==
    /\ queue[w] # <<>>
    /\ queue'[w] = Tail(queue[w])
    /\ lpc'[w] = lpc[w]

\* The loop w starts a reconciliation in this step.
Starts(w) == pc[w] = "idle" /\ pc'[w] # "idle"

\* The reconciliation of loop w returns to the loop in this step.
Completes(w) == pc[w] = "returned" /\ pc'[w] = "idle"

\* C27: within one trigger loop at most one reconciliation is in flight, and
\* the events are reconciled in arrival order: a loop takes its next event or
\* item only when its previous reconciliation is complete (counter
\* incremented, wait group decremented), what it takes is the oldest one, and
\* that is the object it reconciles.  Across the loops at most three
\* reconciliations are in flight.
C27_OneAtATime ==
    [][/\ waitGroup = Cardinality({w \in Loops : inflight[w]})
       /\ waitGroup <= 3
       /\ counted = runs
       /\ \A w \in Loops :
             /\ inflight[w] <=> pc[w] # "idle"
             /\ queue'[w] # queue[w] /\ Len(queue'[w]) <= Len(queue[w]) /\ lpc'[w] = lpc[w]
                => (Takes(w) /\ pc[w] = "idle" /\ ~inflight[w])
             /\ Starts(w) => (Takes(w) /\ obj'[w] = Head(queue[w]).object /\ inflight'[w])
             /\ Completes(w)
                => (counted' = counted + 1 /\ waitGroup' = waitGroup - 1 /\ ~inflight'[w])]_vars

\* The service watch has reconciled its first event and is reconciling the
\* second one, the other loops not having started.
C27_Witness ==
    /\ DOMAIN cluster = {"svc", "svc2"}
    /\ lpc["poller"] = "start" /\ lists = <<>>
    /\ counted = 1
    /\ inflight["services"]
    /\ obj["services"].name = "svc2"
    /\ waitGroup = 1

C29_OnlyAddAndModify ==
    [][\A w \in Watchers :
          /\ Starts(w) => Head(queue[w]).type \in {"ADDED", "MODIFIED"}
          /\ (Takes(w) /\ Head(queue[w]).type \notin {"ADDED", "MODIFIED"})
             => /\ UNCHANGED <<cluster, zone, pc, obj, calls, status, err>>
                /\ UNCHANGED <<counted, runs, waitGroup, inflight>>]_vars

\* The Service was reconciled from its ADDED event and then deleted; the
\* watch, open all the time, has handed out the DELETED event.
C29_Witness ==
    /\ DOMAIN cluster = {}
    /\ zone # {}
    /\ lists = <<>> /\ faults = 0
    /\ lpc["services"] = "next" /\ queue["services"] = <<>>
    /\ \A w \in Loops : pc[w] = "idle"
    /\ counted = 1

\* C30: per-resource errors are contained: a reconciliation that returns
\* failed leaves its loop where it was, the stream open and the remaining
\* events or listed items still to be reconciled; and the list of the
\* services, failed or not, is followed by the list of the ingresses in the
\* same sweep.
C30_ErrorsContained ==
    [][/\ \A w \in Loops :
             (Completes(w) /\ err[w] # "nil")
             => /\ lpc'[w] = lpc[w] /\ queue'[w] = queue[w] /\ sleeping'[w] = sleeping[w]
                /\ lpc[w] \in {"next", "services", "ingresses"}
       /\ (lpc["poller"] = "start" /\ lpc'["poller"] # "start")
          => (lpc'["poller"] = "services" /\ Len(lists') = 1)
       /\ (lpc["poller"] = "services" /\ pc["poller"] = "idle" /\ queue["poller"] = <<>>)
          => ENABLED ListIngresses
       /\ (lpc["poller"] = "services" /\ lpc'["poller"] # "services")
          => (lpc'["poller"] = "ingresses" /\ Len(lists') = 2 /\ lists'[1] = lists[1])]_vars

\* The sweep listed two Services; the reconciliation of the first failed and
\* the second is being reconciled.
C30_Witness ==
    /\ DOMAIN cluster = {"svc", "svc2"}
    /\ lists = <<"nil">>
    /\ lpc["poller"] = "services"
    /\ inflight["poller"] /\ obj["poller"].name = "svc2"
    /\ ~Has(cluster["svc"].ann, annotationGoogleCloudDNSState)
    /\ counted = 1

----------------------------------------------------------------------------
(* Claims about reconciliations running side by side, under SpecRace *)

\* The loops v and w are both inside a reconciliation of the same resource,
\* started from the same desired and the same stored snapshot.
SameDrift(v, w) ==
    /\ v # w
    /\ Acted(v) /\ Acted(w)
    /\ obj[v].name = obj[w].name
    /\ desired[v] = desired[w]
    /\ CurrentOf(obj[v]) = CurrentOf(obj[w])

\* C23: no double-processing: for one drift of one resource the DNS upserts
\* are issued by at most one reconciliation, however a watch-triggered and a
\* sweep-triggered reconciliation of that resource interleave.
C23_NoDoubleProcessing ==
    \A v, w \in Loops :
        SameDrift(v, w) => (UpsertTargets(calls[v]) = <<>> \/ UpsertTargets(calls[w]) = <<>>)

\* The zone's A record of the hostname h has the value ip.
RecordIs(h, ip) ==
    /\ \E rr \in zone : rr.name = FQDN(h) /\ rr.type = "A"
    /\ \A rr \in zone : (rr.name = FQDN(h) /\ rr.type = "A") => rr.rrdatas = <<ip>>

\* C24: the zone not being changed from outside, whenever no reconciliation is
\* in flight and the cluster's copy of a resource carries a state annotation
\* the controller wrote, with snapshot S, the A record of every valid hostname
\* of S has the value S.ipAddress; under every interleaving of reconciliations
\* working from copies read at different times.
C24_StateMatchesZone ==
    (\A w \in Loops : pc[w] = "idle")
    => \A r \in DOMAIN cluster :
          Has(cluster[r].ann, annotationGoogleCloudDNSState)
          => LET S == CurrentOf(cluster[r])
             IN  \A i \in 1..Len(ValidHostnames(S)) :
                    RecordIs(ValidHostnames(S)[i], S.ipAddress)

\* The address of the Service was changed after its snapshot was written, and
\* a reconciliation that started from a stale copy has failed: the snapshot
\* and the record still agree.
C24_Witness ==
    /\ \A w \in Loops : pc[w] = "idle"
    /\ "svc" \in DOMAIN cluster
    /\ Has(cluster["svc"].ann, annotationGoogleCloudDNSState)
    /\ CurrentOf(cluster["svc"]).ipAddress = IP1
    /\ DesiredOf(cluster["svc"]).ipAddress = IP2
    /\ RecordIs(HostAB, IP1)
    /\ runs = MaxStarts

\* C25: a reconciliation diffs against the state annotation the cluster holds
\* at the moment the reconciliation starts, not against an older copy taken
\* when the sweep listed the resources or when the watch event was produced.
C25_ReadsAtStart ==
    [][\A w \in Loops :
          (pc[w] = "idle" /\ pc'[w] # "idle" /\ obj'[w].name \in DOMAIN cluster)
          => CurrentOf(obj'[w]) = CurrentOf(cluster[obj'[w].name])]_vars

----------------------------------------------------------------------------
(* Convergence, under SpecSweep *)

\* A call to the DNS provider or to the API server fails in transport in this step.
TransportStep ==
    \E w \in Loops :
        /\ Len(calls'[w]) > Len(calls[w])
        /\ calls'[w][Len(calls'[w])].err = "transport"

\* Every resource has the record of each of its valid hostnames at its address
\* and carries its desired snapshot as state annotation.
Converged ==
    \A r \in DOMAIN cluster :
        /\ CurrentOf(cluster[r]) = DesiredOf(cluster[r])
        /\ \A i \in 1..Len(ValidHostnames(DesiredOf(cluster[r]))) :
              RecordIs(ValidHostnames(DesiredOf(cluster[r]))[i],
                       DesiredOf(cluster[r]).ipAddress)

----------------------------------------------------------------------------
(* Claims about what a reconciliation returns, under Spec *)

\* C32: every call of process... that returns, returns skipped, succeeded or
\* failed, with an error exactly when the status is failed; succeeded only
\* after an update call that succeeded, as its last call; skipped only when
\* neither a DNS upsert nor an update call was issued.
C32_StatusAndError ==
    \A w \in Loops :
        pc[w] = "returned"
        => /\ status[w] \in {"skipped", "succeeded", "failed"}
           /\ err[w] # "nil" <=> status[w] = "failed"
           /\ status[w] = "succeeded"
              => /\ calls[w] # <<>>
                 /\ IsUpdate(calls[w][Len(calls[w])])
                 /\ calls[w][Len(calls[w])].err = "nil"
           /\ status[w] = "skipped" => calls[w] = <<>>
           /\ status[w] = "failed"
              => /\ calls[w] # <<>>
                 /\ calls[w][Len(calls[w])].err = err[w]

\* A reconciliation returns succeeded after an upsert and the update, the
\* one before it having returned failed with its error.
C32_Witness ==
    \E w \in Loops :
        /\ pc[w] = "returned"
        /\ status[w] = "succeeded"
        /\ Len(calls[w]) >= 2
        /\ prev.run /\ prev.status = "failed" /\ prev.err # "nil"

----------------------------------------------------------------------------
(* Claims about the outcome counters, under SpecTotals *)

RECURSIVE SumOf(_, _)
\* the sum of the counters t over the labels in S
SumOf(t, S) ==
    IF S = {} THEN 0
    ELSE LET l == CHOOSE x \in S : TRUE
         IN  t[l] + SumOf(t, S \ {l})

\* the value of the counter of the labels l, zero while it does not exist
ValueOf(t, l) == IF l \in DOMAIN t THEN t[l] ELSE 0

\* C31: every reconciliation a trigger loop started and got back increments
\* exactly one counter, the one of the resource's namespace, the returned
\* status, the loop's initiator and the resource's type, and nothing else
\* changes a counter; with the three loops incrementing side by side no
\* increment is lost: the counters always add up to the number of completed
\* reconciliations.
C31_OneIncrementEach ==
    [][/\ SumOf(totals, DOMAIN totals) = runs
       /\ \A l \in DOMAIN totals :
             /\ l.status \in {"skipped", "succeeded", "failed"}
             /\ l.initiator \in {"watcher", "poller"}
             /\ l.type \in {"service", "ingress"}
       /\ \A w \in Loops :
             Completes(w)
             => /\ Labels(w).initiator = (IF w = "poller" THEN "poller" ELSE "watcher")
                /\ Labels(w).type = obj[w].kind
                /\ Labels(w).status = status[w]
                /\ totals'[Labels(w)] = ValueOf(totals, Labels(w)) + 1
                /\ \A l \in DOMAIN totals' \ {Labels(w)} :
                      l \in DOMAIN totals /\ totals'[l] = totals[l]
       /\ totals' # totals => \E w \in Loops : Completes(w)]_vars

\* A watch loop and the sweep have each completed a reconciliation and
\* incremented a counter of their own.
C31_Witness ==
    /\ runs = 2
    /\ \E a, b \in DOMAIN totals :
          /\ a.initiator = "watcher" /\ b.initiator = "poller"
          /\ totals[a] = 1 /\ totals[b] = 1
    /\ \A w \in Loops : pc[w] = "idle"

====
